---- MODULE Spec2Model ----
(***************************************************************************)
(* Model of component_vis/utils.py: the mode/axis aliasing wrapper,        *)
(* extract_singleton, unfold_tensor, cp_to_tensor and tucker_to_tensor.    *)
(*                                                                         *)
(* A dense array is a record [shape, data]: shape is the tuple of axis     *)
(* sizes and data is the C-order (row-major) sequence of its entries.      *)
(* Multi-indices are 0-based as in the source; TLA+ sequences are 1-based. *)
(* An optional Python value is a tuple: <<>> is None and <<v>> is v.       *)
(* A character is its code point (ord), a string a tuple of code points.   *)
(***************************************************************************)
EXTENDS Integers, Sequences, FiniteSets, TLC

VARIABLES fn, args, outcome

vars == <<fn, args, outcome>>

(***************************************************************************)
(* Bounds of the checked input space.                                      *)
(***************************************************************************)
MaxNdim == 3
MaxDim == 3
MaxSize == 6
MaxCpModes == 3
MaxTuckerModes == 2
MaxLabelledModes == 2
MaxRows == 2
MaxRank == 2
MaxCpEntries == 6
MaxTuckerEntries == 7
MaxModes == 27

Vals == {0, 1}

None == <<>>
Some(v) == <<v>>

Pending == [kind |-> "pending"]

(***************************************************************************)
(* Dense arrays in C order.                                                *)
(***************************************************************************)
RECURSIVE Prod(_)
Prod(s) == IF s = <<>> THEN 1 ELSE Head(s) * Prod(Tail(s))

RECURSIVE ravel(_, _)
ravel(idx, shape) ==
    IF idx = <<>> THEN 0
    ELSE Head(idx) * Prod(Tail(shape)) + ravel(Tail(idx), Tail(shape))

RECURSIVE unravel(_, _)
unravel(j, shape) ==
    IF shape = <<>> THEN <<>>
    ELSE <<j \div Prod(Tail(shape))>> \o unravel(j % Prod(Tail(shape)), Tail(shape))

ndim(a) == Len(a.shape)
size(a) == Prod(a.shape)
item_at(a, idx) == a.data[ravel(idx, a.shape) + 1]

asarray(x) == [shape |-> x.shape, data |-> x.data]

\* numpy normalize_axis_index: a negative axis counts from the end.
valid_axis(axis, n) == -n <= axis /\ axis < n
normalize_axis_index(axis, n) == IF axis < 0 THEN axis + n ELSE axis

\* Python list.insert(at, x) on a tuple, 0-based position.
insert(s, at, x) == SubSeq(s, 1, at) \o <<x>> \o SubSeq(s, at + 1, Len(s))

\* The tuple s without its element at 0-based position at.
remove_at(s, at) == SubSeq(s, 1, at) \o SubSeq(s, at + 2, Len(s))

\* numpy transpose: axis k of the result is axis order[k] of a.
transpose(a, order) ==
    LET n == ndim(a)
        newshape == [k \in 1..n |-> a.shape[order[k] + 1]]
        src(i) == [ax \in 1..n |-> i[CHOOSE k \in 1..n : order[k] = ax - 1]]
    IN [shape |-> newshape,
        data |-> [p \in 1..Prod(newshape) |-> item_at(a, src(unravel(p - 1, newshape)))]]

\* numpy moveaxis for one source and one destination axis.
moveaxis(a, source, destination) ==
    LET n == ndim(a)
        s == normalize_axis_index(source, n)
        d == normalize_axis_index(destination, n)
        rest == remove_at([k \in 1..n |-> k - 1], s)
    IN transpose(a, insert(rest, d, s))

\* numpy reshape(known, -1): the unknown dimension is inferred, and the
\* inference is refused when the known part is 0 or does not divide.
reshape_infer(a, known) ==
    IF known = 0 \/ size(a) % known # 0
    THEN [kind |-> "ValueError", msg |-> "cannot reshape"]
    ELSE [kind |-> "return",
          value |-> [shape |-> <<known, size(a) \div known>>, data |-> a.data]]

\* numpy reshape to a fully given shape.
reshape(a, newshape) == [shape |-> newshape, data |-> a.data]

(***************************************************************************)
(* unfold_tensor, the wrapped function.                                    *)
(***************************************************************************)
unfold_tensor(tensor, mode) ==
    LET dataset == asarray(tensor)
    IN IF ~valid_axis(mode, ndim(dataset))
       THEN [kind |-> "AxisError", msg |-> "axis out of bounds"]
       ELSE reshape_infer(moveaxis(dataset, mode, 0),
                          dataset.shape[normalize_axis_index(mode, ndim(dataset)) + 1])

(***************************************************************************)
(* _alias_mode_axis: the decorator and its new_func.                       *)
(***************************************************************************)
\* inspect.signature(unfold_tensor).parameters
unfold_tensor_parameters ==
    [tensor |-> [has_default |-> FALSE, default |-> None],
     mode   |-> [has_default |-> FALSE, default |-> None],
     axis   |-> [has_default |-> TRUE,  default |-> None]]

decorator_accepts(parameters) ==
    "axis" \in DOMAIN parameters /\ "mode" \in DOMAIN parameters

mode_default_value(parameters) ==
    IF ~parameters.mode.has_default THEN None ELSE parameters.mode.default

\* dict.get(key, default)
get(arguments, key, default) ==
    IF key \in DOMAIN arguments THEN arguments[key] ELSE default

\* Variants of new_func: one lets axis win over a conflicting mode, one
\* accepts mode and axis together when they are equal.
new_func_axis_wins(parameters, arguments) ==
    LET mode == get(arguments, "mode", mode_default_value(parameters))
        axis == get(arguments, "axis", None)
    IN IF mode = None /\ axis = None
       THEN [kind |-> "TypeError", msg |-> "needs either mode or axis"]
       ELSE IF axis # None
       THEN [kind |-> "call",
             arguments |-> [k \in DOMAIN arguments \cup {"mode"} |->
                               IF k = "mode" THEN axis ELSE arguments[k]]]
       ELSE [kind |-> "call", arguments |-> arguments]

new_func_equal_allowed(parameters, arguments) ==
    LET mode == get(arguments, "mode", mode_default_value(parameters))
        axis == get(arguments, "axis", None)
    IN IF mode = None /\ axis = None
       THEN [kind |-> "TypeError", msg |-> "needs either mode or axis"]
       ELSE IF mode # mode_default_value(parameters) /\ axis # None /\ mode # axis
       THEN [kind |-> "TypeError", msg |-> "mode or axis, not both"]
       ELSE IF axis # None
       THEN [kind |-> "call",
             arguments |-> [k \in DOMAIN arguments \cup {"mode"} |->
                               IF k = "mode" THEN axis ELSE arguments[k]]]
       ELSE [kind |-> "call", arguments |-> arguments]

\* new_func up to the call of the wrapped function: either an error, or
\* the keyword arguments the wrapped function is invoked with.
new_func(parameters, arguments) ==
    LET mode == get(arguments, "mode", mode_default_value(parameters))
        axis == get(arguments, "axis", None)
    IN IF mode = None /\ axis = None
       THEN [kind |-> "TypeError", msg |-> "needs either mode or axis"]
       ELSE IF mode # mode_default_value(parameters) /\ axis # None
       THEN [kind |-> "TypeError", msg |-> "mode or axis, not both"]
       ELSE IF axis # None
       THEN [kind |-> "call",
             arguments |-> [k \in DOMAIN arguments \cup {"mode"} |->
                               IF k = "mode" THEN axis ELSE arguments[k]]]
       ELSE [kind |-> "call", arguments |-> arguments]

\* _handle_labelled_dataset("tensor", None): a labelled tensor is handed on as
\* the plain array of its values, and the output is returned as it is.
handle_labelled_dataset(arguments) ==
    [k \in DOMAIN arguments |->
        IF k = "tensor" THEN asarray(arguments[k]) ELSE arguments[k]]

\* The decorated unfold_tensor: the labelled-dataset wrapper, new_func, then
\* func(**arguments).
call_unfold_tensor(arguments) ==
    LET w == new_func(unfold_tensor_parameters, handle_labelled_dataset(arguments))
    IN IF w.kind # "call"
       THEN [kind |-> w.kind, msg |-> w.msg, invoked |-> FALSE]
       ELSE IF "mode" \notin DOMAIN w.arguments \/ w.arguments.mode = None
       THEN [kind |-> "TypeError", msg |-> "bad mode argument", invoked |-> FALSE]
       ELSE LET r == unfold_tensor(w.arguments.tensor, w.arguments.mode[1])
            IN IF r.kind = "return"
               THEN [kind |-> "return", value |-> r.value, invoked |-> TRUE,
                     mode |-> w.arguments.mode[1]]
               ELSE [kind |-> r.kind, msg |-> r.msg, invoked |-> TRUE,
                     mode |-> w.arguments.mode[1]]

(***************************************************************************)
(* Inputs of unfold_tensor.                                                *)
(***************************************************************************)
ShapesOfLen(n) == {s \in [1..n -> 0..MaxDim] : Prod(s) <= MaxSize}
Shapes == UNION {ShapesOfLen(n) : n \in 1..MaxNdim}
ArraysOfShape(s) == {[shape |-> s, data |-> d] : d \in [1..Prod(s) -> Vals]}
Tensors == UNION {ArraysOfShape(s) : s \in Shapes}

\* A labelled tensor: the values with a coordinate sequence for every axis.
DataArrayOf(s, d) ==
    [shape |-> s, data |-> d,
     coords |-> [k \in 1..Len(s) |-> [i \in 1..s[k] |-> 10 * k + i]]]

OptAxes(t) == {None} \cup {Some(m) : m \in -ndim(t)..(ndim(t) - 1)}

\* signature.bind_partial: only the parameters the caller supplied are bound.
bind_partial(t, given, mode, axis) ==
    [k \in {"tensor"} \cup given |->
        IF k = "tensor" THEN t ELSE IF k = "mode" THEN mode ELSE axis]

InitUnfold ==
    /\ fn = "unfold_tensor"
    /\ \E s \in Shapes : \E d \in [1..Prod(s) -> Vals], labelled \in BOOLEAN :
          LET t == IF labelled THEN DataArrayOf(s, d) ELSE [shape |-> s, data |-> d]
          IN \E given \in SUBSET {"mode", "axis"} :
               \E mo \in OptAxes(t), ax \in OptAxes(t) :
                  args = bind_partial(t, given, mo, ax)
    /\ outcome = Pending

UnfoldTensor ==
    /\ fn = "unfold_tensor"
    /\ outcome = Pending
    /\ outcome' = call_unfold_tensor(args)
    /\ UNCHANGED <<fn, args>>

NextUnfold == UnfoldTensor

SpecUnfold == InitUnfold /\ [][NextUnfold]_vars

(***************************************************************************)
(* extract_singleton.                                                      *)
(***************************************************************************)
\* numpy reshape(-1): the flat view.
reshape_flat(a) == [shape |-> <<size(a)>>, data |-> a.data]

\* A variant of item that takes the first element of any non-empty array.
item_first_element(a) ==
    IF size(a) = 0
    THEN [kind |-> "ValueError", msg |-> "can only convert an array of size 1"]
    ELSE [kind |-> "return", value |-> a.data[1]]

\* numpy ndarray.item(): only an array of exactly one element converts.
item(a) ==
    IF size(a) # 1
    THEN [kind |-> "ValueError", msg |-> "can only convert an array of size 1"]
    ELSE [kind |-> "return", value |-> a.data[1]]

extract_singleton(x) == item(reshape_flat(asarray(x)))

\* Scalars are arrays of shape (); containers have 1 to MaxNdim axes.
InitSingleton ==
    /\ fn = "extract_singleton"
    /\ \E s \in Shapes \cup {<<>>} : \E d \in [1..Prod(s) -> Vals \cup {-7}] :
          args = [x |-> [shape |-> s, data |-> d]]
    /\ outcome = Pending

ExtractSingleton ==
    /\ fn = "extract_singleton"
    /\ outcome = Pending
    /\ outcome' = extract_singleton(args.x)
    /\ UNCHANGED <<fn, args>>

NextSingleton == ExtractSingleton

SpecSingleton == InitSingleton /\ [][NextSingleton]_vars

(***************************************************************************)
(* numpy einsum on a subscripts string.                                    *)
(***************************************************************************)
ord_a == 97
ord_z == 122
ord_A == 65
ord_R == 82
ord_comma == 44
ord_space == 32
ord_dash == 45
ord_greater == 62

RECURSIVE SeqSum(_)
SeqSum(s) == IF s = <<>> THEN 0 ELSE Head(s) + SeqSum(Tail(s))

strip_spaces(s) == SelectSeq(s, LAMBDA c : c # ord_space)

RECURSIVE sorted(_)
sorted(S) ==
    IF S = {} THEN <<>>
    ELSE LET m == CHOOSE x \in S : \A y \in S : x <= y
         IN <<m>> \o sorted(S \ {m})

\* str.split(sep) for a one-character separator.
split(s, sep) ==
    LET cuts == sorted({k \in 1..Len(s) : s[k] = sep})
        n == Len(cuts)
    IN [j \in 1..(n + 1) |->
           SubSeq(s, IF j = 1 THEN 1 ELSE cuts[j - 1] + 1,
                     IF j = n + 1 THEN Len(s) ELSE cuts[j] - 1)]

\* "in1,in2,... -> out" to the operands' subscripts and the output's.
parse_subscripts(subscripts) ==
    LET s == strip_spaces(subscripts)
        arrow == CHOOSE k \in 1..(Len(s) - 1) : s[k] = ord_dash /\ s[k + 1] = ord_greater
    IN [inputs |-> split(SubSeq(s, 1, arrow - 1), ord_comma),
        output |-> SubSeq(s, arrow + 2, Len(s))]

position(s, x) == CHOOSE k \in 1..Len(s) : s[k] = x
occurs(s, x) == \E k \in 1..Len(s) : s[k] = x

\* The limits compiled into numpy: NPY_MAXDIMS and NPY_MAXARGS are 32 before
\* numpy 2.0 and 64 from 2.0 on.  The source pins no numpy version.
NumpyBuilds ==
    {[NPY_MAXDIMS |-> 32, NPY_MAXARGS |-> 32], [NPY_MAXDIMS |-> 64, NPY_MAXARGS |-> 64]}

\* Explicit-mode einsum for operands whose equally labelled axes agree in
\* size: the labels absent from the output are summed over.  numpy refuses
\* NPY_MAXARGS or more operands, and more than NPY_MAXDIMS labels in all
\* (the output's and the summed ones).
einsum(subscripts, operands, numpy) ==
    LET parsed == parse_subscripts(subscripts)
        ins == parsed.inputs
        out == parsed.output
        labels == UNION {{ins[o][a] : a \in 1..Len(ins[o])} : o \in 1..Len(ins)}
        summed == sorted({l \in labels : ~occurs(out, l)})
        dim(l) == LET o == CHOOSE o \in 1..Len(ins) : occurs(ins[o], l)
                  IN operands[o].shape[position(ins[o], l)]
        outshape == [k \in 1..Len(out) |-> dim(out[k])]
        sumshape == [k \in 1..Len(summed) |-> dim(summed[k])]
        at(l, oi, si) == IF occurs(out, l) THEN oi[position(out, l)]
                         ELSE si[position(summed, l)]
        term(oi, si) ==
            Prod([o \in 1..Len(ins) |->
                     item_at(operands[o], [a \in 1..Len(ins[o]) |-> at(ins[o][a], oi, si)])])
        entry(oi) ==
            SeqSum([q \in 1..Prod(sumshape) |-> term(oi, unravel(q - 1, sumshape))])
    IN IF Len(operands) >= numpy.NPY_MAXARGS
       THEN [kind |-> "ValueError",
             msg |-> "too many operands provided to einstein sum function"]
       ELSE IF Len(out) + Len(summed) > numpy.NPY_MAXDIMS
       THEN [kind |-> "ValueError", msg |-> "too many subscripts in einsum"]
       ELSE [kind |-> "return",
             value |-> [shape |-> outshape,
                        data |-> [p \in 1..Prod(outshape) |->
                                     entry(unravel(p - 1, outshape))]]]

ones(n) == [shape |-> <<n>>, data |-> [k \in 1..n |-> 1]]

(***************************************************************************)
(* cp_to_tensor.  cp_tensor is the pair <<weights, factors>>; a labelled   *)
(* factor matrix (a data frame) carries an index of row labels with an     *)
(* optional name.                                                          *)
(***************************************************************************)
\* A variant of cp_weights that always takes the weights to be ones.
cp_weights_ignored(cp_tensor) == ones(cp_tensor[2][1].shape[2])

cp_weights(cp_tensor) ==
    IF cp_tensor[1] = None
    THEN ones(cp_tensor[2][1].shape[2])
    ELSE reshape_flat(cp_tensor[1][1])

\* A variant of the loop that refuses the letter z itself.
RECURSIVE cp_subscripts_loop_off_by_one(_, _, _, _)
cp_subscripts_loop_off_by_one(mode, n, einsum_input, einsum_output) ==
    IF mode = n
    THEN [kind |-> "ok", einsum_input |-> einsum_input, einsum_output |-> einsum_output]
    ELSE LET idx == ord_a + mode
         IN IF idx >= ord_z
            THEN [kind |-> "ValueError", max_modes |-> ord_a - ord_z - 1, current |-> n]
            ELSE cp_subscripts_loop_off_by_one(mode + 1, n,
                    einsum_input \o <<ord_comma, ord_space, idx, ord_R>>,
                    einsum_output \o <<idx>>)

\* The loop over range(len(cp_tensor[1])) from mode on.
RECURSIVE cp_subscripts_loop(_, _, _, _)
cp_subscripts_loop(mode, n, einsum_input, einsum_output) ==
    IF mode = n
    THEN [kind |-> "ok", einsum_input |-> einsum_input, einsum_output |-> einsum_output]
    ELSE LET idx == ord_a + mode
         IN IF idx > ord_z
            THEN [kind |-> "ValueError", max_modes |-> ord_a - ord_z - 1, current |-> n]
            ELSE cp_subscripts_loop(mode + 1, n,
                    einsum_input \o <<ord_comma, ord_space, idx, ord_R>>,
                    einsum_output \o <<idx>>)

is_labelled_cp(cp_tensor) ==
    \A k \in 1..Len(cp_tensor[2]) : "index" \in DOMAIN cp_tensor[2][k]

\* The loop over enumerate(cp_tensor[1]) from mode on.
RECURSIVE cp_labels_loop(_, _, _, _)
cp_labels_loop(mode, factors, coords_dict, dims) ==
    IF mode = Len(factors)
    THEN [coords_dict |-> coords_dict, dims |-> dims]
    ELSE LET fm == factors[mode + 1]
             mode_name == IF fm.index.name # None THEN fm.index.name[1]
                          ELSE "Mode " \o ToString(mode)
         IN cp_labels_loop(mode + 1, factors,
                [k \in DOMAIN coords_dict \cup {mode_name} |->
                    IF k = mode_name THEN fm.index.values ELSE coords_dict[k]],
                Append(dims, mode_name))

\* xarray.DataArray(tensor, dims=dims, coords=coords): sizes = dict(zip(dims,
\* shape)), and a coordinate of another length than its dimension is refused.
DataArray(tensor, dims, coords) ==
    LET sizes(d) == tensor.shape[CHOOSE k \in 1..Len(dims) :
                        dims[k] = d /\ \A j \in (k + 1)..Len(dims) : dims[j] # d]
    IN IF \E d \in DOMAIN coords : Len(coords[d]) # sizes(d)
       THEN [kind |-> "ValueError", msg |-> "conflicting sizes", contracted |-> TRUE]
       ELSE [kind |-> "return", labelled |-> TRUE, value |-> tensor,
             dims |-> dims, coords |-> coords, contracted |-> TRUE]

arrow_text == <<ord_space, ord_dash, ord_greater, ord_space>>

cp_to_tensor(cp_tensor, numpy) ==
    LET weights == cp_weights(cp_tensor)
        sub == cp_subscripts_loop(0, Len(cp_tensor[2]), <<ord_R>>, <<>>)
    IN IF sub.kind = "ValueError"
       THEN [kind |-> "ValueError", max_modes |-> sub.max_modes,
             current |-> sub.current, contracted |-> FALSE]
       ELSE LET r == einsum(sub.einsum_input \o arrow_text \o sub.einsum_output,
                            <<weights>> \o [k \in 1..Len(cp_tensor[2]) |->
                                               asarray(cp_tensor[2][k])],
                            numpy)
            IN IF r.kind # "return"
               THEN [kind |-> r.kind, msg |-> r.msg, contracted |-> TRUE]
               ELSE IF ~is_labelled_cp(cp_tensor)
               THEN [kind |-> "return", labelled |-> FALSE, value |-> r.value,
                     contracted |-> TRUE]
               ELSE LET l == cp_labels_loop(0, cp_tensor[2], <<>>, <<>>)
                    IN DataArray(r.value, l.dims, l.coords_dict)

(***************************************************************************)
(* tucker_to_tensor.  tucker_tensor is the pair <<core, factors>>.         *)
(***************************************************************************)
\* A variant of the loop that prepends the output symbols.
RECURSIVE tucker_subscripts_loop_output_reversed(_, _, _, _, _)
tucker_subscripts_loop_output_reversed(mode, n, einsum_core, einsum_input, einsum_output) ==
    IF mode = n
    THEN [kind |-> "ok", einsum_core |-> einsum_core, einsum_input |-> einsum_input,
          einsum_output |-> einsum_output]
    ELSE LET idx == ord_a + mode
             rank_idx == ord_A + mode
         IN IF idx > ord_z
            THEN [kind |-> "ValueError", max_modes |-> ord_a - ord_z, current |-> n]
            ELSE tucker_subscripts_loop_output_reversed(mode + 1, n,
                    einsum_core \o <<rank_idx>>,
                    einsum_input \o <<ord_comma, ord_space, idx, rank_idx>>,
                    <<idx>> \o einsum_output)

\* The loop over range(len(tucker_tensor[1])) from mode on.
RECURSIVE tucker_subscripts_loop(_, _, _, _, _)
tucker_subscripts_loop(mode, n, einsum_core, einsum_input, einsum_output) ==
    IF mode = n
    THEN [kind |-> "ok", einsum_core |-> einsum_core, einsum_input |-> einsum_input,
          einsum_output |-> einsum_output]
    ELSE LET idx == ord_a + mode
             rank_idx == ord_A + mode
         IN IF idx > ord_z
            THEN [kind |-> "ValueError", max_modes |-> ord_a - ord_z, current |-> n]
            ELSE tucker_subscripts_loop(mode + 1, n,
                    einsum_core \o <<rank_idx>>,
                    einsum_input \o <<ord_comma, ord_space, idx, rank_idx>>,
                    einsum_output \o <<idx>>)

tucker_to_tensor(tucker_tensor, numpy) ==
    LET sub == tucker_subscripts_loop(0, Len(tucker_tensor[2]), <<>>, <<>>, <<>>)
    IN IF sub.kind = "ValueError"
       THEN [kind |-> "ValueError", max_modes |-> sub.max_modes,
             current |-> sub.current, contracted |-> FALSE]
       ELSE LET r == einsum(sub.einsum_core \o sub.einsum_input \o arrow_text
                                \o sub.einsum_output,
                            <<asarray(tucker_tensor[1])>>
                                \o [k \in 1..Len(tucker_tensor[2]) |->
                                       asarray(tucker_tensor[2][k])],
                            numpy)
            IN IF r.kind # "return"
               THEN [kind |-> r.kind, msg |-> r.msg, contracted |-> TRUE]
               ELSE [kind |-> "return", labelled |-> FALSE, contracted |-> TRUE,
                     value |-> r.value]

(***************************************************************************)
(* Inputs of cp_to_tensor and tucker_to_tensor.  The entries of all the    *)
(* factor matrices are drawn as one vector and cut into the matrices.      *)
(***************************************************************************)
slice(d, offset, n) == [k \in 1..n |-> d[offset + k]]

FactorsFrom(rows, ranks, d) ==
    [k \in 1..Len(rows) |->
        [shape |-> <<rows[k], ranks[k]>>,
         data |-> slice(d, SeqSum([j \in 1..(k - 1) |-> rows[j] * ranks[j]]),
                        rows[k] * ranks[k])]]

FactorEntries(rows, ranks) == SeqSum([j \in 1..Len(rows) |-> rows[j] * ranks[j]])

WeightChoices(R) ==
    {None} \cup {Some([shape |-> <<R>>, data |-> w]) : w \in [1..R -> Vals]}
           \cup {Some([shape |-> <<1, R>>, data |-> w]) : w \in [1..R -> Vals]}

\* Many modes: every factor has one row, but factor wide, which has two.
TallPattern(k, i, r) == 1 + ((k + i + r) % 2)

TallCpFactors(M, wide, R) ==
    [k \in 1..M |->
        LET n == IF k = wide THEN 2 ELSE 1
        IN [shape |-> <<n, R>>,
            data |-> [p \in 1..(n * R) |-> TallPattern(k, (p - 1) \div R, (p - 1) % R)]]]

IndexNames == {None, Some("x"), Some("Mode 1")}
LabelBases == {0, 10}
Labellings ==
    {[labelled |-> FALSE]}
        \cup {[labelled |-> TRUE, name |-> n, base |-> b] : n \in IndexNames, b \in LabelBases}

\* Factor matrices of ones; a labelled one is a data frame with an index.
LabelledFactors(rows, how) ==
    [k \in 1..Len(rows) |->
        IF how[k].labelled
        THEN [shape |-> <<rows[k], 1>>, data |-> [p \in 1..rows[k] |-> 1],
              index |-> [values |-> [i \in 1..rows[k] |-> how[k].base + i],
                         name |-> how[k].name]]
        ELSE [shape |-> <<rows[k], 1>>, data |-> [p \in 1..rows[k] |-> 1]]]

InitCpSmall ==
    \E M \in 1..MaxCpModes, R \in 0..MaxRank :
      \E rows \in [1..M -> 0..MaxRows] :
        LET ranks == [k \in 1..M |-> R]
        IN /\ FactorEntries(rows, ranks) <= MaxCpEntries
           /\ \E d \in [1..FactorEntries(rows, ranks) -> Vals], w \in WeightChoices(R) :
                 args = [cp_tensor |-> <<w, FactorsFrom(rows, ranks, d)>>]

InitCpTall ==
    \E M \in (MaxCpModes + 1)..MaxModes, R \in 1..MaxRank :
      \E wide \in 0..M, w \in {None, Some([shape |-> <<R>>, data |-> [r \in 1..R |-> r]])} :
        args = [cp_tensor |-> <<w, TallCpFactors(M, wide, R)>>]

InitCpLabelled ==
    \E M \in 1..MaxLabelledModes :
      \E rows \in [1..M -> 1..MaxRows], how \in [1..M -> Labellings] :
        args = [cp_tensor |-> <<None, LabelledFactors(rows, how)>>]

InitCp ==
    /\ fn = "cp_to_tensor"
    /\ (InitCpSmall \/ InitCpTall \/ InitCpLabelled)
    /\ outcome = Pending

TallTuckerFactors(M, wide) ==
    [k \in 1..M |->
        LET R == IF k = wide THEN 2 ELSE 1
        IN [shape |-> <<1, R>>, data |-> [p \in 1..R |-> TallPattern(k, 0, p - 1)]]]

TallTuckerCore(M, wide) ==
    LET shape == [k \in 1..M |-> IF k = wide THEN 2 ELSE 1]
    IN [shape |-> shape, data |-> [p \in 1..Prod(shape) |-> p]]

InitTuckerSmall ==
    \E M \in 1..MaxTuckerModes :
      \E rows \in [1..M -> 0..MaxRows], ranks \in [1..M -> 0..MaxRank] :
        /\ Prod(ranks) + FactorEntries(rows, ranks) <= MaxTuckerEntries
        /\ \E c \in [1..Prod(ranks) -> Vals], d \in [1..FactorEntries(rows, ranks) -> Vals] :
              args = [tucker_tensor |->
                        <<[shape |-> ranks, data |-> c], FactorsFrom(rows, ranks, d)>>]

InitTuckerTall ==
    \E M \in (MaxTuckerModes + 1)..MaxModes :
      \E wide \in 0..M :
        args = [tucker_tensor |-> <<TallTuckerCore(M, wide), TallTuckerFactors(M, wide)>>]

InitTucker ==
    /\ fn = "tucker_to_tensor"
    /\ (InitTuckerSmall \/ InitTuckerTall)
    /\ outcome = Pending

CpToTensor ==
    /\ fn = "cp_to_tensor"
    /\ outcome = Pending
    /\ \E numpy \in NumpyBuilds : outcome' = cp_to_tensor(args.cp_tensor, numpy)
    /\ UNCHANGED <<fn, args>>

TuckerToTensor ==
    /\ fn = "tucker_to_tensor"
    /\ outcome = Pending
    /\ \E numpy \in NumpyBuilds :
          outcome' = tucker_to_tensor(args.tucker_tensor, numpy)
    /\ UNCHANGED <<fn, args>>

InitReconstruct == InitCp \/ InitTucker

NextReconstruct == CpToTensor \/ TuckerToTensor

SpecReconstruct == InitReconstruct /\ [][NextReconstruct]_vars

(***************************************************************************)
(* All four functions.                                                     *)
(***************************************************************************)
Init == InitUnfold \/ InitSingleton \/ InitCp \/ InitTucker

Next == UnfoldTensor \/ ExtractSingleton \/ CpToTensor \/ TuckerToTensor

Spec == Init /\ [][Next]_vars

(***************************************************************************)
(* Properties of unfold_tensor.                                            *)
(***************************************************************************)
UnfoldDone == fn = "unfold_tensor" /\ outcome.kind # "pending"

ModeArg == get(args, "mode", None)
AxisArg == get(args, "axis", None)
ExactlyOneGiven == (ModeArg = None) # (AxisArg = None)
GivenAxis == IF AxisArg # None THEN AxisArg[1] ELSE ModeArg[1]

\* out is the matricisation of T along axis m: the shape, every entry by
\* row-major decoding of the column index over the other axes, and the
\* round trip through reshape and moveaxis.
IsUnfolding(T, m, out) ==
    LET n == T.shape[m + 1]
        others == remove_at(T.shape, m)
    IN /\ out.kind = "return"
       /\ out.value.shape = <<n, Prod(others)>>
       /\ Len(out.value.data) = n * Prod(others)
       /\ \A i \in 0..(n - 1), j \in 0..(Prod(others) - 1) :
             item_at(out.value, <<i, j>>) = item_at(T, insert(unravel(j, others), m, i))
       /\ moveaxis(reshape(out.value, <<n>> \o others), 0, m) = asarray(T)

\* C1: for every dense tensor T and valid axis m, unfold_tensor(T, m) returns
\* the (T.shape[m], product of the other sizes) matrix whose entry [i, j] is
\* the entry of T at index i along m and the row-major decoding of j over the
\* other axes, and reshaping and moving axis 0 back to m recovers T.
C1_UnfoldEveryTensor ==
    (UnfoldDone /\ ExactlyOneGiven) =>
        IsUnfolding(args.tensor, normalize_axis_index(GivenAxis, ndim(args.tensor)), outcome)

\* The same statement for the tensors whose unfolding axis is not empty.
UnfoldNonEmptyAxis ==
    (UnfoldDone /\ ExactlyOneGiven
        /\ args.tensor.shape[normalize_axis_index(GivenAxis, ndim(args.tensor)) + 1] # 0) =>
        IsUnfolding(args.tensor, normalize_axis_index(GivenAxis, ndim(args.tensor)), outcome)

\* An unfolding along an empty axis is refused by the shape inference.
UnfoldEmptyAxisRefused ==
    (UnfoldDone /\ ExactlyOneGiven
        /\ args.tensor.shape[normalize_axis_index(GivenAxis, ndim(args.tensor)) + 1] = 0) =>
        outcome.kind = "ValueError"

\* C2: unfold_tensor fails with a TypeError and produces no result when
\* neither mode nor axis is supplied (both None), or when both are supplied
\* with conflicting values.
C2_MissingOrConflictingIsTypeError ==
    (UnfoldDone /\ ((ModeArg = None /\ AxisArg = None)
                    \/ (ModeArg # None /\ AxisArg # None /\ ModeArg # AxisArg))) =>
        /\ outcome.kind = "TypeError"
        /\ ~outcome.invoked
        /\ "value" \notin DOMAIN outcome

C2_Witness ==
    /\ UnfoldDone
    /\ ModeArg = Some(0) /\ AxisArg = Some(1)
    /\ outcome.kind = "TypeError"

\* C3: calling with only axis = m (mode omitted or None) succeeds and returns
\* exactly the matrix that calling with only mode = m returns, m = 0 included.
C3_AxisAloneEqualsModeAlone ==
    (UnfoldDone /\ ModeArg = None /\ AxisArg # None) =>
        /\ outcome.kind = "return"
        /\ outcome.invoked
        /\ LET by_mode == call_unfold_tensor([tensor |-> args.tensor, mode |-> AxisArg])
           IN by_mode.kind = "return" /\ by_mode.value = outcome.value

\* The aliasing alone: an axis-only call ends exactly as the mode-only call.
AxisAloneSameOutcome ==
    (UnfoldDone /\ ModeArg = None /\ AxisArg # None) =>
        /\ outcome.invoked
        /\ outcome = call_unfold_tensor([tensor |-> args.tensor, mode |-> AxisArg])

\* C10: the wrapped function is invoked if and only if exactly one of mode
\* and axis is not None; when both are not None the wrapper raises TypeError
\* without invoking it, also when the two values are equal.
C10_InvokedIffExactlyOne ==
    UnfoldDone =>
        /\ outcome.invoked <=> ExactlyOneGiven
        /\ (ModeArg # None /\ AxisArg # None) =>
              (outcome.kind = "TypeError" /\ ~outcome.invoked)

C10_Witness ==
    /\ UnfoldDone
    /\ ModeArg # None /\ ModeArg = AxisArg
    /\ size(args.tensor) > 0
    /\ outcome.kind = "TypeError" /\ ~outcome.invoked

(***************************************************************************)
(* Properties of extract_singleton.                                        *)
(***************************************************************************)
SingletonDone == fn = "extract_singleton" /\ outcome.kind # "pending"

\* C8: extract_singleton returns the single element unchanged for every
\* container of exactly one element (scalar, 1-element array, 1x1 array) and
\* fails without a value for every container of 0 or more than 1 elements.
C8_SingletonOrFailure ==
    SingletonDone =>
        IF Prod(args.x.shape) = 1
        THEN outcome.kind = "return" /\ outcome.value = args.x.data[1]
        ELSE outcome.kind = "ValueError" /\ "value" \notin DOMAIN outcome

C8_Witness ==
    /\ SingletonDone
    /\ args.x.shape = <<1, 1>>
    /\ outcome.kind = "return" /\ outcome.value = -7

C8_WitnessFailure ==
    /\ SingletonDone
    /\ args.x.shape = <<2>>
    /\ outcome.kind = "ValueError"

(***************************************************************************)
(* Properties of cp_to_tensor and tucker_to_tensor.                        *)
(***************************************************************************)
CpDone == fn = "cp_to_tensor" /\ outcome.kind # "pending"
TuckerDone == fn = "tucker_to_tensor" /\ outcome.kind # "pending"

Factors == IF fn = "cp_to_tensor" THEN args.cp_tensor[2] ELSE args.tucker_tensor[2]
NumModes == Len(Factors)
RowsOfFactors == [k \in 1..NumModes |-> Factors[k].shape[1]]
AlphabetSize == ord_z - ord_a + 1

RangeError == outcome.kind = "ValueError" /\ "max_modes" \in DOMAIN outcome

\* sum over r of weight[r] * product over k of factors[k][idx[k], r]
CpEntry(w, F, R, idx) ==
    SeqSum([r \in 1..R |->
               w[r] * Prod([k \in 1..Len(F) |-> F[k].data[idx[k] * R + r]])])

\* sum over the core indices of core[r_0, ...] * product of factors[k][idx[k], r_k]
TuckerEntry(core, F, idx) ==
    SeqSum([q \in 1..Prod(core.shape) |->
               LET r == unravel(q - 1, core.shape)
               IN core.data[q]
                    * Prod([k \in 1..Len(F) |-> F[k].data[idx[k] * F[k].shape[2] + r[k] + 1]])])

IsIdentity(f) ==
    /\ f.shape[1] = f.shape[2]
    /\ \A i \in 0..(f.shape[1] - 1), j \in 0..(f.shape[1] - 1) :
          f.data[i * f.shape[1] + j + 1] = IF i = j THEN 1 ELSE 0

\* C4: with at most 26 factor matrices of one rank R, cp_to_tensor returns the
\* tensor of shape (rows of factor 0, ..., rows of factor M-1) whose entry at
\* (i_0, ...) is the sum over r of weight[r] times the product over the modes
\* of factors[k][i_k, r]; weights None stands for ones(R).
C4_CpReconstruction ==
    (CpDone /\ NumModes <= AlphabetSize) =>
        LET cp == args.cp_tensor
            R == cp[2][1].shape[2]
            w == IF cp[1] = None THEN [r \in 1..R |-> 1] ELSE cp[1][1].data
        IN /\ outcome.kind = "return"
           /\ outcome.value.shape = RowsOfFactors
           /\ Len(outcome.value.data) = Prod(RowsOfFactors)
           /\ \A p \in 1..Prod(RowsOfFactors) :
                 outcome.value.data[p] = CpEntry(w, cp[2], R, unravel(p - 1, RowsOfFactors))
           /\ cp[1] = None =>
                 \A numpy \in NumpyBuilds :
                    outcome = cp_to_tensor(<<Some(ones(R)), cp[2]>>, numpy)

C4_Witness ==
    /\ CpDone
    /\ NumModes = 2
    /\ args.cp_tensor[1] # None
    /\ \E r \in 1..Len(args.cp_tensor[1][1].data) : args.cp_tensor[1][1].data[r] = 0
    /\ outcome.kind = "return"
    /\ outcome.value.shape = <<2, 1>>
    /\ outcome.value.data = <<1, 0>>

\* The contraction itself was refused by numpy for too many subscripts.
EinsumRefused ==
    /\ outcome.kind = "ValueError"
    /\ "max_modes" \notin DOMAIN outcome
    /\ outcome.contracted
    /\ outcome.msg = "too many subscripts in einsum"

\* C5: cp_to_tensor and tucker_to_tensor raise the range error, before any
\* contraction and without a result, exactly when there are more than 26
\* factor matrices.  Without the range error the contraction is reached, and
\* it returns unless numpy refuses the 2M subscripts of a Tucker string.
C5_RangeErrorIffMoreThan26 ==
    (CpDone \/ TuckerDone) =>
        /\ RangeError <=> NumModes > AlphabetSize
        /\ RangeError => (~outcome.contracted /\ "value" \notin DOMAIN outcome)
        /\ ~RangeError =>
              /\ outcome.contracted
              /\ outcome.kind # "return" =>
                    (TuckerDone /\ 2 * NumModes > 32 /\ EinsumRefused)

C5_Witness ==
    /\ CpDone
    /\ NumModes = AlphabetSize + 1
    /\ RangeError /\ ~outcome.contracted

C5_WitnessLastLetter ==
    /\ TuckerDone
    /\ NumModes = AlphabetSize
    /\ outcome.kind = "return"

ExpectedName(k) ==
    IF Factors[k].index.name # None THEN Factors[k].index.name[1]
    ELSE "Mode " \o ToString(k - 1)

\* C6: if every factor matrix carries row labels, the result of cp_to_tensor
\* is labelled with one axis per factor in factor order, axis k named by
\* factor k's index name or else "Mode k", and axis k's coordinates are factor
\* k's row labels, whatever the names; otherwise the result is a plain array.
C6_CpLabelsFollowFactors ==
    (CpDone /\ NumModes <= AlphabetSize) =>
        IF is_labelled_cp(args.cp_tensor)
        THEN /\ outcome.kind = "return"
             /\ outcome.labelled
             /\ Len(outcome.dims) = NumModes
             /\ \A k \in 1..NumModes :
                   /\ outcome.dims[k] = ExpectedName(k)
                   /\ outcome.coords[outcome.dims[k]] = Factors[k].index.values
        ELSE outcome.kind = "return" /\ ~outcome.labelled /\ "dims" \notin DOMAIN outcome

\* The same statement for the decompositions whose axis names are distinct.
CpLabelsDistinctNames ==
    (CpDone /\ NumModes <= AlphabetSize /\ is_labelled_cp(args.cp_tensor)
        /\ \A j, k \in 1..NumModes : j # k => ExpectedName(j) # ExpectedName(k)) =>
        /\ outcome.kind = "return"
        /\ outcome.labelled
        /\ Len(outcome.dims) = NumModes
        /\ \A k \in 1..NumModes :
              /\ outcome.dims[k] = ExpectedName(k)
              /\ outcome.coords[outcome.dims[k]] = Factors[k].index.values

\* C7: with at most 26 modes, tucker_to_tensor returns the plain tensor of
\* shape (n_0, ..., n_{M-1}) whose entry at (i_0, ...) is the sum over the
\* core index tuples of core[r_0, ...] times the product over the modes of
\* factors[k][i_k, r_k]; with identity factors the result is the core.
C7_TuckerReconstruction ==
    (TuckerDone /\ NumModes <= AlphabetSize) =>
        LET core == args.tucker_tensor[1]
        IN /\ outcome.kind = "return"
           /\ ~outcome.labelled
           /\ outcome.value.shape = RowsOfFactors
           /\ Len(outcome.value.data) = Prod(RowsOfFactors)
           /\ \A p \in 1..Prod(RowsOfFactors) :
                 outcome.value.data[p]
                    = TuckerEntry(core, Factors, unravel(p - 1, RowsOfFactors))
           /\ (\A k \in 1..NumModes : IsIdentity(Factors[k])) =>
                 outcome.value = asarray(core)

\* The same statement for the Tucker strings numpy accepts on every build:
\* at most 32 subscripts, that is at most 16 modes.
TuckerWithinEinsumLimit ==
    (TuckerDone /\ 2 * NumModes <= 32) =>
        LET core == args.tucker_tensor[1]
        IN /\ outcome.kind = "return"
           /\ ~outcome.labelled
           /\ outcome.value.shape = RowsOfFactors
           /\ \A p \in 1..Prod(RowsOfFactors) :
                 outcome.value.data[p]
                    = TuckerEntry(core, Factors, unravel(p - 1, RowsOfFactors))
           /\ (\A k \in 1..NumModes : IsIdentity(Factors[k])) =>
                 outcome.value = asarray(core)

\* With 17 to 26 modes the outcome depends on the numpy build: the tensor of
\* the formula, or numpy's refusal of the subscripts.
TuckerBeyondEinsumLimit ==
    (TuckerDone /\ 2 * NumModes > 32 /\ NumModes <= AlphabetSize) =>
        \/ EinsumRefused
        \/ /\ outcome.kind = "return"
           /\ outcome.value.shape = RowsOfFactors
           /\ \A p \in 1..Prod(RowsOfFactors) :
                 outcome.value.data[p]
                    = TuckerEntry(args.tucker_tensor[1], Factors,
                                  unravel(p - 1, RowsOfFactors))

TuckerRefusedReached ==
    TuckerDone /\ NumModes = 17 /\ EinsumRefused

C7_Witness ==
    /\ TuckerDone
    /\ NumModes = 2
    /\ args.tucker_tensor[1].shape = <<2, 1>>
    /\ RowsOfFactors = <<1, 2>>
    /\ outcome.kind = "return"
    /\ outcome.value.data = <<2, 0>>

C7_WitnessIdentity ==
    /\ TuckerDone
    /\ NumModes = 2
    /\ \A k \in 1..NumModes : IsIdentity(Factors[k])
    /\ args.tucker_tensor[1] = [shape |-> <<2, 1>>, data |-> <<0, 1>>]
    /\ outcome.kind = "return"

\* C9: the range error reports 26 as the limit of modes and the number of
\* factor matrices passed as the current count.
C9_ReportedLimitIs26 ==
    ((CpDone \/ TuckerDone) /\ RangeError) =>
        /\ outcome.max_modes = AlphabetSize
        /\ outcome.current = NumModes

\* What the two messages report.
ReportedLimits ==
    ((CpDone \/ TuckerDone) /\ RangeError) =>
        /\ outcome.current = NumModes
        /\ outcome.max_modes = IF fn = "cp_to_tensor" THEN -26 ELSE -25

====
